---- MODULE Spec2Model ----
(***************************************************************************)
(* SLA penalty cache: the monthly DuckDB artifact, its rebuild from the    *)
(* production event log, the waiver workflow, the cached report query, and *)
(* the dashboard KPIs and the detailed report computed from the production *)
(* database.                                                               *)
(* Times are minutes since 2024-01-01T00:00; money is in whole currency    *)
(* units (every amount the formula yields is a multiple of 500.00).        *)
(***************************************************************************)
EXTENDS Integers, Sequences, FiniteSets, TLC

\* ------------------------------------------------------------------
\* Bounds of the model
\* ------------------------------------------------------------------
NumProcs == 2
\* requests issued when they are served one at a time / when they overlap
MaxOps == 2
MaxOverlapOps == 2

\* ------------------------------------------------------------------
\* Calendar and program constants
\* ------------------------------------------------------------------
NULL == -1
MinutesPerDay == 1440
DailyPenalty == 500
PENALTY_THRESHOLD == 1440
HTTP_200_OK == 200
HTTP_500 == 500

\* days of December 2023 (month 0) and of January, February, March 2024
MonthDays == (0 :> 31) @@ <<31, 29, 31>>

RECURSIVE MonthStart(_)
\* first minute of the i-th month of 2024 (i = 0 is December 2023, i = 4 is
\* the end of March)
MonthStart(i) ==
    IF i = 1 THEN 0
    ELSE IF i < 1 THEN MonthStart(i + 1) - MonthDays[i] * MinutesPerDay
    ELSE MonthStart(i - 1) + MonthDays[i - 1] * MinutesPerDay

\* strftime("%Y%m") of a datetime
YearMonth(t) ==
    LET i == CHOOSE j \in 1..3 : MonthStart(j) <= t /\ t < MonthStart(j + 1)
    IN 202400 + i

\* the artifact path of a month: report_data_<YYYYMM>.duckdb
\* a naming that keeps one file for all months
get_duckdb_file_path_single(month_date) == 202401

get_duckdb_file_path(month_date) == YearMonth(month_date)

MonthKeys == {202401, 202402, 202403}

\* ------------------------------------------------------------------
\* Reference data of the production database (read-only to the core)
\* ------------------------------------------------------------------
Camera_TBL == {1, 2, 3, 4}

\* camera 2 is recorded by two NVRs, camera 4 by none
NVRChannel_TBL == { [nchCamera_FRK |-> 1, nchNVR_FRK |-> 1],
                    [nchCamera_FRK |-> 2, nchNVR_FRK |-> 1],
                    [nchCamera_FRK |-> 2, nchNVR_FRK |-> 2],
                    [nchCamera_FRK |-> 3, nchNVR_FRK |-> 2] }

\* camera 2 has two geography links that lead to buildings under different
\* contracts, camera 4 has none
GeoRollupCameraLink_TBL ==
    { [id |-> 1, gclCamera_FRK |-> 1, gclZone_FRK |-> 1, gclStreet_FRK |-> 1, gclBuilding_FRK |-> 1, gclUnit_FRK |-> 1],
      [id |-> 2, gclCamera_FRK |-> 2, gclZone_FRK |-> 2, gclStreet_FRK |-> 2, gclBuilding_FRK |-> 2, gclUnit_FRK |-> 2],
      [id |-> 3, gclCamera_FRK |-> 2, gclZone_FRK |-> 3, gclStreet_FRK |-> 2, gclBuilding_FRK |-> 3, gclUnit_FRK |-> 3],
      [id |-> 4, gclCamera_FRK |-> 3, gclZone_FRK |-> 1, gclStreet_FRK |-> 1, gclBuilding_FRK |-> 3, gclUnit_FRK |-> 1] }

\* bldAlarmContractNumber_TXT of each building
BuildingContracts == (1 :> "PWD") @@ (2 :> "PWD") @@ (3 :> "OTHER")

\* the buildings once the PWD contract numbers are taken off
NoContracts == (1 :> "OTHER") @@ (2 :> "OTHER") @@ (3 :> "OTHER")

\* Building_TBL of the production database: building -> contract number
VARIABLE Building_TBL

NoLink == [id |-> NULL, gclCamera_FRK |-> NULL, gclZone_FRK |-> NULL, gclStreet_FRK |-> NULL,
           gclBuilding_FRK |-> NULL, gclUnit_FRK |-> NULL]

LinksOf(cam) == {g \in GeoRollupCameraLink_TBL : g.gclCamera_FRK = cam}

\* the outcomes of SELECT TOP (1) g.* without ORDER BY, one link per camera
GeoPicks ==
    { f \in [Camera_TBL -> GeoRollupCameraLink_TBL \cup {NoLink}] :
        \A cam \in Camera_TBL :
            IF LinksOf(cam) = {} THEN f[cam] = NoLink ELSE f[cam] \in LinksOf(cam) }

\* ------------------------------------------------------------------
\* The event log (IncidentLog_TBL)
\* ------------------------------------------------------------------
\* the incidents a waiver request may name
IncidentPRKs == {1, 2, 3}
Jan5_10h == 4 * MinutesPerDay + 600
Feb3_00h == MonthStart(2) + 2 * MinutesPerDay
Feb20_00h == MonthStart(2) + 19 * MinutesPerDay
\* minutes between the disconnect and the connect event of camera 1
Deltas == {1439, 1440, 1441, 2880, 4320}

STATUS_OPEN_FK == 1
STATUS_CLOSED_FK == 2

Event(dev, zone, dtm, msg, status) ==
    [inlSourceDevice_FRK |-> dev, inlZone_FRK |-> zone, inlStreet_FRK |-> zone, inlUnit_FRK |-> zone,
     inlDateTime_DTM |-> dtm, inlAlarmMessage_TXT |-> msg, inlStatus_FRK |-> status,
     inlSubSubCategory_FRK |-> NULL]

\* events 1-3 carry the zone of their camera; events 4-8 carry no zone:
\* 4-6 are an earlier disconnect, an earlier connect and a later connect of
\* camera 1; 7-8 are an outage of camera 1 that ends after February, stamped by
\* a device clock that runs ahead of the first clock reading
InitialLog(d) ==
    << Event(1, 1, Jan5_10h, "Channel disconnect", STATUS_OPEN_FK),
       Event(1, 1, Jan5_10h + d, "Channel connected", STATUS_CLOSED_FK),
       Event(2, 2, Feb3_00h, "Channel disconnect", STATUS_OPEN_FK),
       Event(1, NULL, 1 * MinutesPerDay, "Channel disconnect", STATUS_CLOSED_FK),
       Event(1, NULL, 2 * MinutesPerDay, "Channel connected", STATUS_CLOSED_FK),
       Event(1, NULL, 19 * MinutesPerDay, "Channel connected", STATUS_CLOSED_FK),
       Event(1, NULL, Feb20_00h, "Channel disconnect", STATUS_OPEN_FK),
       Event(1, NULL, MonthStart(3) + 720, "Channel connected", STATUS_CLOSED_FK) >>

\* ------------------------------------------------------------------
\* The PenaltyBase query of regenerate_duckdb_cache
\* ------------------------------------------------------------------
SetMax(S) == CHOOSE x \in S : \A y \in S : y <= x
SetMin(S) == CHOOSE x \in S : \A y \in S : x <= y

\* the earliest disconnect in place of the latest
OfflineTimeEarliest(log, cam, start_date, end_date) ==
    LET T == { log[e].inlDateTime_DTM : e \in
                 { e \in DOMAIN log :
                     /\ log[e].inlSourceDevice_FRK = cam
                     /\ log[e].inlDateTime_DTM >= start_date
                     /\ log[e].inlDateTime_DTM < end_date
                     /\ log[e].inlAlarmMessage_TXT = "Channel disconnect" } }
    IN IF T = {} THEN NULL ELSE SetMin(T)

\* OUTER APPLY lo: the latest disconnect of the camera in [start, end)
OfflineTime(log, cam, start_date, end_date) ==
    LET T == { log[e].inlDateTime_DTM : e \in
                 { e \in DOMAIN log :
                     /\ log[e].inlSourceDevice_FRK = cam
                     /\ log[e].inlDateTime_DTM >= start_date
                     /\ log[e].inlDateTime_DTM < end_date
                     /\ log[e].inlAlarmMessage_TXT = "Channel disconnect" } }
    IN IF T = {} THEN NULL ELSE SetMax(T)

\* the earliest connect in the window, whether or not it follows lo
OnlineTimeAnyConnect(log, cam, start_date, end_date, lo) ==
    LET T == { log[e].inlDateTime_DTM : e \in
                 { e \in DOMAIN log :
                     /\ log[e].inlSourceDevice_FRK = cam
                     /\ log[e].inlDateTime_DTM >= start_date
                     /\ log[e].inlDateTime_DTM < end_date
                     /\ log[e].inlAlarmMessage_TXT = "Channel connected"
                     /\ lo # NULL } }
    IN IF T = {} THEN NULL ELSE SetMin(T)

\* OUTER APPLY lon: the earliest connect of the camera after lo in [start, end)
OnlineTime(log, cam, start_date, end_date, lo) ==
    LET T == { log[e].inlDateTime_DTM : e \in
                 { e \in DOMAIN log :
                     /\ log[e].inlSourceDevice_FRK = cam
                     /\ log[e].inlDateTime_DTM >= start_date
                     /\ log[e].inlDateTime_DTM < end_date
                     /\ log[e].inlAlarmMessage_TXT = "Channel connected"
                     /\ lo # NULL
                     /\ log[e].inlDateTime_DTM > lo } }
    IN IF T = {} THEN NULL ELSE SetMin(T)

\* an ongoing outage ends at the clock reading, whatever the window end
EffectiveEndUnclipped(lo, lon, end_date, getdate) ==
    IF lo = NULL THEN NULL
    ELSE IF lon # NULL /\ lon <= end_date THEN lon
    ELSE IF lon # NULL /\ lon > end_date THEN end_date
    ELSE getdate

\* CROSS APPLY eff
EffectiveEndForMonth(lo, lon, end_date, getdate) ==
    IF lo = NULL THEN NULL
    ELSE IF lon # NULL /\ lon <= end_date THEN lon
    ELSE IF lon # NULL /\ lon > end_date THEN end_date
    ELSE IF lon = NULL /\ getdate <= end_date THEN getdate
    ELSE end_date

\* the clamped DATEDIFF(MINUTE, lo, eff) shared by both columns
ClampedMinutes(lo, eff) == IF eff < lo THEN 0 ELSE eff - lo

OfflineMinutes(lo, eff) == IF lo = NULL THEN NULL ELSE ClampedMinutes(lo, eff)

\* a floor in place of the ceiling
Floor1440(m) == m \div MinutesPerDay

\* CEILING(m / 1440.0)
Ceiling1440(m) == (m + MinutesPerDay - 1) \div MinutesPerDay

\* the formula without its waiver branch
PenaltyAmountUnwaived(lo, eff, waiver) ==
    IF lo = NULL THEN 0
    ELSE IF ClampedMinutes(lo, eff) >= PENALTY_THRESHOLD
         THEN Ceiling1440(ClampedMinutes(lo, eff)) * DailyPenalty
         ELSE 0

PenaltyAmount(lo, eff, waiver) ==
    IF lo = NULL THEN 0
    ELSE IF waiver # NULL THEN 0
    ELSE IF ClampedMinutes(lo, eff) >= PENALTY_THRESHOLD
         THEN Ceiling1440(ClampedMinutes(lo, eff)) * DailyPenalty
         ELSE 0

\* LEFT JOIN NVRChannel_TBL / NVR_TBL
NVRsOf(cam) ==
    LET N == { nc.nchNVR_FRK : nc \in {c \in NVRChannel_TBL : c.nchCamera_FRK = cam} }
    IN IF N = {} THEN {NULL} ELSE N

\* LEFT JOIN IncidentLog_TBL il ON zone and source device
IncidentsOf(log, cam, gr) ==
    LET E == { e \in DOMAIN log : /\ gr.gclZone_FRK # NULL
                                /\ log[e].inlZone_FRK = gr.gclZone_FRK
                                /\ log[e].inlSourceDevice_FRK = cam }
    IN IF E = {} THEN {NULL} ELSE E

PenaltyRow(log, cam, nvr, gr, e, start_date, end_date, getdate) ==
    LET lo == OfflineTime(log, cam, start_date, end_date)
        lon == OnlineTime(log, cam, start_date, end_date, lo)
        eff == EffectiveEndForMonth(lo, lon, end_date, getdate)
        waiver == IF e = NULL THEN NULL ELSE log[e].inlSubSubCategory_FRK
    IN [ NVR_PRK |-> nvr, Camera_PRK |-> cam,
         gclZone_FRK |-> gr.gclZone_FRK, gclStreet_FRK |-> gr.gclStreet_FRK,
         gclBuilding_FRK |-> gr.gclBuilding_FRK, gclUnit_FRK |-> gr.gclUnit_FRK,
         IncidentLog_PRK |-> e, WaiverCategory |-> waiver,
         OfflineTime |-> lo, OnlineTime |-> lon, EffectiveEndForMonth |-> eff,
         OfflineMinutes |-> OfflineMinutes(lo, eff),
         PenaltyAmount |-> PenaltyAmount(lo, eff, waiver) ]

\* SELECT * FROM PenaltyBase, for one outcome of the TOP (1) geography picks
PenaltyBase(log, start_date, end_date, getdate, pick) ==
    { PenaltyRow(log, x[1], x[2], pick[x[1]], x[3], start_date, end_date, getdate) :
        x \in { y \in Camera_TBL \X ({NULL} \cup {1, 2}) \X ({NULL} \cup DOMAIN log) :
                  /\ y[2] \in NVRsOf(y[1])
                  /\ y[3] \in IncidentsOf(log, y[1], pick[y[1]])
                  /\ pick[y[1]].gclBuilding_FRK # NULL
                  /\ Building_TBL[pick[y[1]].gclBuilding_FRK] = "PWD" } }

\* ------------------------------------------------------------------
\* Inputs of the requests
\* ------------------------------------------------------------------
Procs == 1..NumProcs

Feb10_00h == MonthStart(2) + 9 * MinutesPerDay
Mar2_00h == MonthStart(3) + MinutesPerDay
\* wall-clock readings (datetime.now() / GETDATE()), in increasing order
NowPoints == <<Feb10_00h, Mar2_00h>>

\* (month_start_date, month_end_date) pairs sent by callers
Windows == { <<MonthStart(1), MonthStart(2)>>, <<MonthStart(2), MonthStart(3)>> }

\* the pairs a caller may send: whole months, ten days of February, and
\* January with February
CallerWindows ==
    Windows \cup { <<Feb10_00h, Feb20_00h>>, <<MonthStart(1), MonthStart(3)>> }

SubCategories == {7}

\* DashboardFilters as the cached query reads it; has_sort tells whether the
\* object carries the sort_key / sort_dir attributes at all
\* an Optional[List[int]]: None, or the list of ids
None == [given |-> FALSE, ids |-> {}]
List(ids) == [given |-> TRUE, ids |-> ids]

NoFilters == [zone_id |-> None, street_id |-> None, unit_id |-> None, skip |-> 0, limit |-> 500,
              has_sort |-> TRUE, sort_key |-> "IncidentLog_PRK", sort_dir |-> "asc"]

FilterInputs ==
    { NoFilters,
      [NoFilters EXCEPT !.zone_id = List({1}), !.street_id = List({}), !.skip = 1, !.limit = 1,
                        !.sort_key = "Camera_PRK", !.sort_dir = "desc"],
      [NoFilters EXCEPT !.has_sort = FALSE] }

\* ------------------------------------------------------------------
\* State
\* ------------------------------------------------------------------
VARIABLES
    il,        \* IncidentLog_TBL: IncidentLog_PRK -> row
    now,       \* the wall clock
    artifact,  \* the cache directory: month key -> DuckDB file
    pc,        \* position of each request
    loc,       \* arguments, locals and outcome of each request
    opsLeft,   \* requests that may still be issued
    overlap    \* whether requests may overlap in time (threadpool) or run one by one

vars == <<Building_TBL, il, now, artifact, pc, loc, opsLeft, overlap>>

NoFile == [exists |-> FALSE, hasTable |-> FALSE, rows |-> {}, mtime |-> NULL]
NoArtifacts == [k \in MonthKeys |-> NoFile]

EmptyResponse == [total_rows |-> 0, data |-> <<>>]
NoResult == [none |-> TRUE]

\* pre, preLog, failed and window are history fields: the cache directory and
\* the event log as they were when the request was issued, the statements of a
\* dashboard or report request on which the database raised, and the window
\* its penalty query was given with the clock reading it was derived from
Idle == [op |-> "none", start |-> NULL, end |-> NULL, prk |-> NULL, sub |-> NULL,
         df |-> {}, filters |-> NoFilters, raised |-> "none", result |-> NoResult,
         pre |-> NoArtifacts, preLog |-> <<>>, failed |-> {}, window |-> <<NULL, NULL>>, at |-> NULL]

KeyOf(p) == get_duckdb_file_path(loc[p].start)

\* a read-write connection is open between duckdb.connect and the end of the with block
WriterOpen(k) == \E q \in Procs : pc[q] = "create" /\ KeyOf(q) = k
\* a read-only connection is open while the cached query runs
ReaderOpen(k) == \E q \in Procs : pc[q] = "select" /\ KeyOf(q) = k

Busy(p) == pc[p] \notin {"idle", "done"}

\* a worker takes the next request when it has answered the previous one;
\* worker p + 1 is used only after worker p has been
CanStart(p) ==
    /\ ~Busy(p)
    /\ opsLeft > 0
    /\ IF p = 1 THEN TRUE ELSE overlap /\ pc[p - 1] # "idle"

\* is_duckdb_file_stale(get_duckdb_file_path(month)): the file is missing or
\* was last modified more than timedelta(hours=24) ago
is_duckdb_file_stale(k) ==
    IF ~artifact[k].exists THEN TRUE
    ELSE (now - artifact[k].mtime) > 24 * 60

\* a cache built earlier by a successful rebuild of the month
BuiltArtifact(log, w, at, pick) ==
    [exists |-> TRUE, hasTable |-> TRUE, rows |-> PenaltyBase(log, w[1], w[2], at, pick), mtime |-> at]

InitCommon ==
    /\ Building_TBL = BuildingContracts
    /\ now = NowPoints[1]
    /\ \E pick \in GeoPicks :
         artifact \in { NoArtifacts,
                        [NoArtifacts EXCEPT ![202401] =
                            BuiltArtifact(il, <<MonthStart(1), MonthStart(2)>>, NowPoints[1], pick)] }
    /\ pc = [p \in Procs |-> "idle"]
    /\ loc = [p \in Procs |-> Idle]

Init ==
    /\ il = InitialLog(4320)
    /\ InitCommon
    /\ opsLeft = MaxOverlapOps
    /\ overlap = TRUE

InitSeq ==
    /\ \E d \in Deltas : il = InitialLog(d)
    /\ InitCommon
    /\ opsLeft = MaxOps
    /\ overlap = FALSE

\* ------------------------------------------------------------------
\* regenerate_duckdb_cache
\* ------------------------------------------------------------------
StartRegen(p, w) ==
    /\ CanStart(p)
    /\ pc' = [pc EXCEPT ![p] = "read"]
    /\ loc' = [loc EXCEPT ![p] = [Idle EXCEPT !.op = "regen", !.start = w[1], !.end = w[2],
                                              !.pre = artifact, !.preLog = il]]
    /\ opsLeft' = opsLeft - 1
    /\ UNCHANGED <<Building_TBL, il, now, artifact, overlap>>

\* where the caller resumes when the rebuild returns or raises
AfterRegen(p) == IF loc[p].op = "waive" THEN "respond" ELSE "done"

\* a rebuild that empties the cached table before it reads the source
ReadSourceTruncating(p) ==
    /\ pc[p] = "read"
    /\ \/ /\ \E pick \in GeoPicks :
               loc' = [loc EXCEPT ![p].df = PenaltyBase(il, loc[p].start, loc[p].end, now, pick)]
          /\ pc' = [pc EXCEPT ![p] = "connect"]
          /\ artifact' = artifact
       \/ /\ loc' = [loc EXCEPT ![p].raised = "source_error"]
          /\ pc' = [pc EXCEPT ![p] = AfterRegen(p)]
          /\ artifact' = [artifact EXCEPT ![KeyOf(p)] = [NoFile EXCEPT !.exists = TRUE, !.mtime = now]]
    /\ UNCHANGED <<Building_TBL, il, now, opsLeft, overlap>>

\* db.execute(text(base_sql_cte), params) and the DataFrame built from it
ReadSource(p) ==
    /\ pc[p] = "read"
    /\ \/ /\ \E pick \in GeoPicks :
               loc' = [loc EXCEPT ![p].df = PenaltyBase(il, loc[p].start, loc[p].end, now, pick)]
          /\ pc' = [pc EXCEPT ![p] = "connect"]
       \/ /\ loc' = [loc EXCEPT ![p].raised = "source_error"]
          /\ pc' = [pc EXCEPT ![p] = AfterRegen(p)]
    /\ UNCHANGED <<Building_TBL, il, now, artifact, opsLeft, overlap>>

\* duckdb.connect(database=duckdb_file_path, read_only=False): refused while a
\* read-only connection to the file is open, creates the file when it is missing
ConnectWrite(p) ==
    /\ pc[p] = "connect"
    /\ IF ReaderOpen(KeyOf(p))
       THEN /\ loc' = [loc EXCEPT ![p].raised = "connect_error", ![p].df = {}]
            /\ pc' = [pc EXCEPT ![p] = AfterRegen(p)]
            /\ artifact' = artifact
       ELSE /\ artifact' = IF artifact[KeyOf(p)].exists THEN artifact
                           ELSE [artifact EXCEPT ![KeyOf(p)] = [NoFile EXCEPT !.exists = TRUE, !.mtime = now]]
            /\ pc' = [pc EXCEPT ![p] = "create"]
            /\ loc' = loc
    /\ UNCHANGED <<Building_TBL, il, now, opsLeft, overlap>>

\* CREATE OR REPLACE TABLE cached_report_data AS SELECT ... FROM df_temp, and the
\* end of the with block; a frame without rows has no columns to select
CreateTable(p) ==
    /\ pc[p] = "create"
    /\ IF loc[p].df = {}
       THEN /\ loc' = [loc EXCEPT ![p].raised = "create_error"]
            /\ artifact' = artifact
       ELSE /\ artifact' = [artifact EXCEPT ![KeyOf(p)] =
                               [exists |-> TRUE, hasTable |-> TRUE, rows |-> loc[p].df, mtime |-> now]]
            /\ loc' = [loc EXCEPT ![p].df = {}]
    /\ pc' = [pc EXCEPT ![p] = AfterRegen(p)]
    /\ UNCHANGED <<Building_TBL, il, now, opsLeft, overlap>>

\* ------------------------------------------------------------------
\* update_incident_log_and_refresh_cache and the waive_penalty endpoint
\* ------------------------------------------------------------------
StartWaive(p, w, prk, sub) ==
    /\ CanStart(p)
    /\ pc' = [pc EXCEPT ![p] = "update"]
    /\ loc' = [loc EXCEPT ![p] = [Idle EXCEPT !.op = "waive", !.start = w[1], !.end = w[2],
                                              !.prk = prk, !.sub = sub,
                                              !.pre = artifact, !.preLog = il]]
    /\ opsLeft' = opsLeft - 1
    /\ UNCHANGED <<Building_TBL, il, now, artifact, overlap>>

\* the UPDATE statement
SetCategory(log, prk, sub) ==
    [e \in DOMAIN log |-> IF e = prk THEN [log[e] EXCEPT !.inlSubSubCategory_FRK = sub] ELSE log[e]]

\* a workflow that rebuilds even though the update failed
UpdateIncidentLogThenRebuild(p) ==
    /\ pc[p] = "update"
    /\ \/ /\ il' = SetCategory(il, loc[p].prk, loc[p].sub)
          /\ pc' = [pc EXCEPT ![p] = "read"]
          /\ loc' = loc
       \/ /\ il' = il
          /\ loc' = [loc EXCEPT ![p].raised = "update_error"]
          /\ pc' = [pc EXCEPT ![p] = "read"]
    /\ UNCHANGED <<Building_TBL, now, artifact, opsLeft, overlap>>

\* db.execute(update_sql, ...) and db.commit()
UpdateIncidentLog(p) ==
    /\ pc[p] = "update"
    /\ \/ /\ il' = SetCategory(il, loc[p].prk, loc[p].sub)
          /\ pc' = [pc EXCEPT ![p] = "read"]
          /\ loc' = loc
       \/ /\ il' = il
          /\ loc' = [loc EXCEPT ![p].raised = "update_error"]
          /\ pc' = [pc EXCEPT ![p] = "respond"]
    /\ UNCHANGED <<Building_TBL, now, artifact, opsLeft, overlap>>

\* an endpoint that swallows the exception
WaiveResponseSwallowing(raised) ==
    [status_code |-> HTTP_200_OK, message |-> "waived and cache refreshed", cause |-> "none"]

WaiveResponse(raised) ==
    IF raised = "none"
    THEN [status_code |-> HTTP_200_OK, message |-> "waived and cache refreshed", cause |-> "none"]
    ELSE [status_code |-> HTTP_500, message |-> "Failed to waive penalty and refresh cache", cause |-> raised]

\* the return / except of waive_penalty
Respond(p) ==
    /\ pc[p] = "respond"
    /\ loc' = [loc EXCEPT ![p].result = WaiveResponse(loc[p].raised)]
    /\ pc' = [pc EXCEPT ![p] = "done"]
    /\ UNCHANGED <<Building_TBL, il, now, artifact, opsLeft, overlap>>

\* ------------------------------------------------------------------
\* query_cached_report_data
\* ------------------------------------------------------------------
StartQuery(p, m, f) ==
    /\ CanStart(p)
    /\ pc' = [pc EXCEPT ![p] = "check"]
    /\ loc' = [loc EXCEPT ![p] =
                 [Idle EXCEPT !.op = "query", !.start = m, !.filters = f]]
    /\ opsLeft' = opsLeft - 1
    /\ UNCHANGED <<Building_TBL, il, now, artifact, overlap>>

\* table_exists_in_cache: a read-only connection that cannot be opened counts as "no table"
table_exists_in_cache(k) ==
    /\ artifact[k].exists
    /\ ~WriterOpen(k)
    /\ artifact[k].hasTable

\* a check that opens the file read-write, which creates a missing file
CheckCacheCreating(p) ==
    /\ pc[p] = "check"
    /\ IF table_exists_in_cache(KeyOf(p))
       THEN /\ pc' = [pc EXCEPT ![p] = "open"]
            /\ loc' = loc
            /\ artifact' = artifact
       ELSE /\ pc' = [pc EXCEPT ![p] = "done"]
            /\ loc' = [loc EXCEPT ![p].result = EmptyResponse]
            /\ artifact' = IF artifact[KeyOf(p)].exists THEN artifact
                           ELSE [artifact EXCEPT ![KeyOf(p)] = [NoFile EXCEPT !.exists = TRUE, !.mtime = now]]
    /\ UNCHANGED <<Building_TBL, il, now, opsLeft, overlap>>

\* os.path.exists(path) and table_exists_in_cache(path)
CheckCache(p) ==
    /\ pc[p] = "check"
    /\ IF table_exists_in_cache(KeyOf(p))
       THEN /\ pc' = [pc EXCEPT ![p] = "open"]
            /\ loc' = loc
       ELSE /\ pc' = [pc EXCEPT ![p] = "done"]
            /\ loc' = [loc EXCEPT ![p].result = EmptyResponse]
    /\ UNCHANGED <<Building_TBL, il, now, artifact, opsLeft, overlap>>

\* duckdb.connect(read_only=True), refused while a read-write connection is open;
\* then the filter and sort clauses are built, which reads filters.sort_key;
\* every exception ends in the empty response
OpenRead(p) ==
    /\ pc[p] = "open"
    /\ IF ~WriterOpen(KeyOf(p)) /\ loc[p].filters.has_sort
       THEN /\ pc' = [pc EXCEPT ![p] = "select"]
            /\ loc' = loc
       ELSE /\ pc' = [pc EXCEPT ![p] = "done"]
            /\ loc' = [loc EXCEPT ![p].result = EmptyResponse]
    /\ UNCHANGED <<Building_TBL, il, now, artifact, opsLeft, overlap>>

\* "col IN (...)" when the list is present and non-empty
InFilter(l, v) == (l.given /\ l.ids # {}) => v \in l.ids

Matches(r, f) ==
    /\ InFilter(f.zone_id, r.gclZone_FRK)
    /\ InFilter(f.street_id, r.gclStreet_FRK)
    /\ InFilter(f.unit_id, r.gclUnit_FRK)

sort_map == {"IncidentLog_PRK", "PenaltyAmount", "OfflineTime", "OnlineTime", "OfflineMinutes", "Camera_PRK"}

sort_column(f) == IF f.sort_key \in sort_map THEN f.sort_key ELSE "IncidentLog_PRK"

SortValue(r, col) ==
    CASE col = "IncidentLog_PRK" -> r.IncidentLog_PRK
      [] col = "PenaltyAmount" -> r.PenaltyAmount
      [] col = "OfflineTime" -> r.OfflineTime
      [] col = "OnlineTime" -> r.OnlineTime
      [] col = "OfflineMinutes" -> r.OfflineMinutes
      [] col = "Camera_PRK" -> r.Camera_PRK

\* ORDER BY col ASC|DESC: NULLs last, equal values in any order
InOrder(a, b, desc) ==
    IF b = NULL THEN TRUE
    ELSE IF a = NULL THEN FALSE
    ELSE IF desc THEN a >= b ELSE a <= b

Orderings(S, col, desc) ==
    { s \in [1..Cardinality(S) -> S] :
        /\ \A i, j \in 1..Cardinality(S) : i # j => s[i] # s[j]
        /\ \A i, j \in 1..Cardinality(S) :
              i < j => InOrder(SortValue(s[i], col), SortValue(s[j], col), desc) }

Min2(a, b) == IF a <= b THEN a ELSE b

\* LIMIT limit OFFSET skip
Page(s, skip, limit) == SubSeq(s, skip + 1, Min2(Len(s), skip + limit))

\* ReportRow(**row_dict): NVR_PRK is a required int, WaiverCategory an optional str
ReportRowValid(r) == r.NVR_PRK # NULL /\ r.WaiverCategory = NULL

\* the possible answers of the query over a table
QueryAnswers(rows, f) ==
    LET M == {r \in rows : Matches(r, f)}
    IN { IF \A i \in 1..Len(Page(s, f.skip, f.limit)) : ReportRowValid(Page(s, f.skip, f.limit)[i])
         THEN [total_rows |-> Cardinality(M), data |-> Page(s, f.skip, f.limit)]
         ELSE EmptyResponse :
           s \in Orderings(M, sort_column(f), f.sort_dir = "desc") }

\* the SELECT, the COUNT(*) and the conversion to ReportRow objects
RunQuery(p) ==
    /\ pc[p] = "select"
    /\ \E ans \in QueryAnswers(artifact[KeyOf(p)].rows, loc[p].filters) :
          loc' = [loc EXCEPT ![p].result = ans]
    /\ pc' = [pc EXCEPT ![p] = "done"]
    /\ UNCHANGED <<Building_TBL, il, now, artifact, opsLeft, overlap>>

\* ------------------------------------------------------------------
\* Environment
\* ------------------------------------------------------------------
\* time passes
Tick ==
    /\ \E i \in 1..(Len(NowPoints) - 1) : now = NowPoints[i] /\ now' = NowPoints[i + 1]
    /\ UNCHANGED <<Building_TBL, il, artifact, pc, loc, opsLeft, overlap>>

Next ==
    \/ \E p \in Procs, w \in Windows : StartRegen(p, w)
    \/ \E p \in Procs : ReadSource(p)
    \/ \E p \in Procs : ConnectWrite(p)
    \/ \E p \in Procs : CreateTable(p)
    \/ \E p \in Procs, w \in Windows, prk \in IncidentPRKs, sub \in SubCategories : StartWaive(p, w, prk, sub)
    \/ \E p \in Procs : UpdateIncidentLog(p)
    \/ \E p \in Procs : Respond(p)
    \/ \E p \in Procs, w \in Windows, f \in FilterInputs : StartQuery(p, w[1], f)
    \/ \E p \in Procs : CheckCache(p)
    \/ \E p \in Procs : OpenRead(p)
    \/ \E p \in Procs : RunQuery(p)
    \/ Tick

\* another application takes the contract number off every building
ContractEnds ==
    /\ Building_TBL = BuildingContracts
    /\ Building_TBL' = NoContracts
    /\ UNCHANGED <<il, now, artifact, pc, loc, opsLeft, overlap>>

InitWindows ==
    /\ il = InitialLog(4320)
    /\ InitCommon
    /\ opsLeft = MaxOps
    /\ overlap = FALSE

NextWindows ==
    \/ \E p \in Procs, w \in CallerWindows : StartRegen(p, w)
    \/ \E p \in Procs : ReadSource(p)
    \/ \E p \in Procs : ConnectWrite(p)
    \/ \E p \in Procs : CreateTable(p)
    \/ \E p \in Procs, w \in CallerWindows, prk \in IncidentPRKs, sub \in SubCategories :
          StartWaive(p, w, prk, sub)
    \/ \E p \in Procs : UpdateIncidentLog(p)
    \/ \E p \in Procs : Respond(p)
    \/ Tick
    \/ ContractEnds

\* requests overlap freely
Spec == Init /\ [][Next]_vars
\* requests are served one at a time
SpecSeq == InitSeq /\ [][Next]_vars
\* rebuilds and waivers with any window, served one at a time, in a database
\* whose contract table may change
SpecWindows == InitWindows /\ [][NextWindows]_vars

\* ------------------------------------------------------------------
\* services/dashboard_service.py: the dashboard reads the event log and the
\* reference data and writes nothing, so it is explored on its own
\* ------------------------------------------------------------------
CameraZone_TBL == { g.gclZone_FRK : g \in GeoRollupCameraLink_TBL }
Street_TBL == { g.gclStreet_FRK : g \in GeoRollupCameraLink_TBL }
Unit_TBL == { g.gclUnit_FRK : g \in GeoRollupCameraLink_TBL }

\* the DashboardFilters handed to get_dashboard_data
DashboardFilterInputs ==
    { [zone_id |-> None, street_id |-> None, unit_id |-> None,
       date_from |-> MonthStart(1), date_to |-> MonthStart(2)],
      [zone_id |-> List({2}), street_id |-> List({}), unit_id |-> None,
       date_from |-> MonthStart(2), date_to |-> MonthStart(3)],
      [zone_id |-> None, street_id |-> None, unit_id |-> None,
       date_from |-> NULL, date_to |-> NULL],
      [zone_id |-> None, street_id |-> None, unit_id |-> None,
       date_from |-> MonthStart(2), date_to |-> NULL] }

\* the statements get_dashboard_data sends to the database, by the KPI they feed
StaticKPIs == {"total_zones", "total_streets", "total_units"}
tasks == {"total_open_incidents", "total_closed_incidents", "total_penalty"}

\* the WHERE clause of build_incident_filter_clause, applied to one event
build_incident_filter_clause(row, filters, include_status) ==
    /\ InFilter(filters.zone_id, row.inlZone_FRK)
    /\ InFilter(filters.street_id, row.inlStreet_FRK)
    /\ InFilter(filters.unit_id, row.inlUnit_FRK)
    /\ filters.date_from # NULL => row.inlDateTime_DTM >= filters.date_from
    /\ filters.date_to # NULL => row.inlDateTime_DTM <= filters.date_to
    /\ include_status = "Open" => row.inlStatus_FRK = 1
    /\ include_status = "Closed" => row.inlStatus_FRK = 2

\* SELECT COUNT(*) ...: the bare except turns a failure into 0
execute_count_query(count, raises) == IF raises THEN 0 ELSE count

calculate_open_incidents(log, filters, raises) ==
    execute_count_query(
        Cardinality({ e \in DOMAIN log : build_incident_filter_clause(log[e], filters, "Open") }), raises)

calculate_closed_incidents(log, filters, raises) ==
    execute_count_query(
        Cardinality({ e \in DOMAIN log : build_incident_filter_clause(log[e], filters, "Closed") }), raises)

get_static_kpis(failed) ==
    [total_zones |-> execute_count_query(Cardinality(CameraZone_TBL), "total_zones" \in failed),
     total_streets |-> execute_count_query(Cardinality(Street_TBL), "total_streets" \in failed),
     total_units |-> execute_count_query(Cardinality(Unit_TBL), "total_units" \in failed)]

\* month number (0..3) of a datetime of the modelled months
MonthOf(t) == CHOOSE j \in 0..3 : MonthStart(j) <= t /\ t < MonthStart(j + 1)

\* a date logic that takes the previous month to be the 30 days before the
\* first day of this month
PenaltyWindowThirtyDays(filters, t) ==
    IF filters.date_from # NULL /\ filters.date_to # NULL
    THEN <<filters.date_from, filters.date_to>>
    ELSE LET first_day_this_month == MonthStart(MonthOf(t))
             first_day_prev_month == first_day_this_month - 30 * MinutesPerDay
         IN <<first_day_prev_month, first_day_this_month>>

\* DATE LOGIC of calculate_penalty: the two dates of the filters when both are
\* given, the previous calendar month of the clock reading otherwise
PenaltyWindow(filters, t) ==
    IF filters.date_from # NULL /\ filters.date_to # NULL
    THEN <<filters.date_from, filters.date_to>>
    ELSE LET first_day_this_month == MonthStart(MonthOf(t))
             last_day_prev_month == first_day_this_month - MinutesPerDay
             first_day_prev_month == MonthStart(MonthOf(last_day_prev_month))
         IN <<first_day_prev_month, first_day_this_month>>

\* CEILING(m / 60.0)
Ceiling60(m) == (m + 59) \div 60

\* the PenaltyAmount column of the dashboard's PenaltyBase
DashboardPenaltyAmount(lo, eff) ==
    IF lo = NULL THEN 0
    ELSE IF ClampedMinutes(lo, eff) >= PENALTY_THRESHOLD
         THEN Ceiling60(ClampedMinutes(lo, eff)) * DailyPenalty
         ELSE 0

\* the dashboard's PenaltyBase: no join with the event rows, one row per
\* (camera, NVR channel)
DashboardPenaltyBase(log, start_date, end_date, getdate, pick) ==
    { LET cam == x[1]
          lo == OfflineTime(log, cam, start_date, end_date)
          lon == OnlineTime(log, cam, start_date, end_date, lo)
          eff == EffectiveEndForMonth(lo, lon, end_date, getdate)
      IN [ NVR_PRK |-> x[2], Camera_PRK |-> cam,
           gclZone_FRK |-> pick[cam].gclZone_FRK, gclStreet_FRK |-> pick[cam].gclStreet_FRK,
           gclBuilding_FRK |-> pick[cam].gclBuilding_FRK, gclUnit_FRK |-> pick[cam].gclUnit_FRK,
           OfflineTime |-> lo, OnlineTime |-> lon, EffectiveEndForMonth |-> eff,
           OfflineMinutes |-> OfflineMinutes(lo, eff),
           PenaltyAmount |-> DashboardPenaltyAmount(lo, eff) ] :
        x \in { y \in Camera_TBL \X ({NULL} \cup {1, 2}) :
                  /\ y[2] \in NVRsOf(y[1])
                  /\ pick[y[1]].gclBuilding_FRK # NULL
                  /\ Building_TBL[pick[y[1]].gclBuilding_FRK] = "PWD" } }

RECURSIVE SumPenaltyAmount(_)
\* SUM(PenaltyAmount), 0 for no rows
SumPenaltyAmount(rows) ==
    IF rows = {} THEN 0
    ELSE LET r == CHOOSE x \in rows : TRUE
         IN r.PenaltyAmount + SumPenaltyAmount(rows \ {r})

\* calculate_penalty: the total, or the exception db.execute raised
calculate_penalty(log, filters, t, pick, raises) ==
    IF raises THEN [raised |-> TRUE, value |-> NULL]
    ELSE LET w == PenaltyWindow(filters, t)
         IN [raised |-> FALSE,
             value |-> SumPenaltyAmount({ r \in DashboardPenaltyBase(log, w[1], w[2], t, pick) :
                                            Matches(r, filters) })]

\* asyncio.gather(..., return_exceptions=True) and the loop over its results,
\* with the error map never filled
get_dashboard_data_silent(log, filters, t, pick, failed) ==
    LET static_kpis == get_static_kpis(failed)
        results ==
            [total_open_incidents |->
                [raised |-> FALSE,
                 value |-> calculate_open_incidents(log, filters, "total_open_incidents" \in failed)],
             total_closed_incidents |->
                [raised |-> FALSE,
                 value |-> calculate_closed_incidents(log, filters, "total_closed_incidents" \in failed)],
             total_penalty |-> calculate_penalty(log, filters, t, pick, "total_penalty" \in failed)]
        output == [key \in tasks |-> IF results[key].raised THEN 0 ELSE results[key].value]
        errors == {}
    IN [total_zones |-> static_kpis.total_zones,
        total_streets |-> static_kpis.total_streets,
        total_units |-> static_kpis.total_units,
        total_open_incidents |-> output["total_open_incidents"],
        total_closed_incidents |-> output["total_closed_incidents"],
        total_penalty |-> output["total_penalty"],
        error_details |-> [key \in errors |-> "error"]]

\* asyncio.gather(..., return_exceptions=True) and the loop over its results;
\* failed is the set of statements on which the database raises
get_dashboard_data(log, filters, t, pick, failed) ==
    LET static_kpis == get_static_kpis(failed)
        results ==
            [total_open_incidents |->
                [raised |-> FALSE,
                 value |-> calculate_open_incidents(log, filters, "total_open_incidents" \in failed)],
             total_closed_incidents |->
                [raised |-> FALSE,
                 value |-> calculate_closed_incidents(log, filters, "total_closed_incidents" \in failed)],
             total_penalty |-> calculate_penalty(log, filters, t, pick, "total_penalty" \in failed)]
        output == [key \in tasks |-> IF results[key].raised THEN 0 ELSE results[key].value]
        errors == { key \in tasks : results[key].raised }
    IN [total_zones |-> static_kpis.total_zones,
        total_streets |-> static_kpis.total_streets,
        total_units |-> static_kpis.total_units,
        total_open_incidents |-> output["total_open_incidents"],
        total_closed_incidents |-> output["total_closed_incidents"],
        total_penalty |-> output["total_penalty"],
        error_details |-> [key \in errors |-> "error"]]

\* a call of get_dashboard_data(db, filters)
StartDashboard(p, f) ==
    /\ CanStart(p)
    /\ pc' = [pc EXCEPT ![p] = "gather"]
    /\ loc' = [loc EXCEPT ![p] = [Idle EXCEPT !.op = "dashboard", !.filters = f]]
    /\ opsLeft' = opsLeft - 1
    /\ UNCHANGED <<Building_TBL, il, now, artifact, overlap>>

\* the static KPIs, the three gathered tasks and the response built from them
GatherKPIs(p) ==
    /\ pc[p] = "gather"
    /\ \E failed \in SUBSET (StaticKPIs \cup tasks), pick \in GeoPicks :
          loc' = [loc EXCEPT ![p].failed = failed,
                             ![p].window = PenaltyWindow(loc[p].filters, now),
                             ![p].at = now,
                             ![p].result = get_dashboard_data(il, loc[p].filters, now, pick, failed)]
    /\ pc' = [pc EXCEPT ![p] = "done"]
    /\ UNCHANGED <<Building_TBL, il, now, artifact, opsLeft, overlap>>

\* ------------------------------------------------------------------
\* services/report_data_service.py and routers/report_routes.py
\* ------------------------------------------------------------------
CSV_LIMIT == 500000
PDF_LIMIT == 100000

\* the query parameters of the report routes
ReportFilterInputs ==
    { [zone_id |-> None, street_id |-> None, unit_id |-> None,
       date_from |-> MonthStart(2), date_to |-> MonthStart(3), skip |-> 0, limit |-> 10000],
      [zone_id |-> List({2}), street_id |-> None, unit_id |-> None,
       date_from |-> MonthStart(2), date_to |-> MonthStart(3), skip |-> 1, limit |-> 1],
      [zone_id |-> List({2}), street_id |-> None, unit_id |-> None,
       date_from |-> MonthStart(2), date_to |-> MonthStart(3), skip |-> 0, limit |-> 1],
      [zone_id |-> None, street_id |-> None, unit_id |-> None,
       date_from |-> NULL, date_to |-> NULL, skip |-> 0, limit |-> 1] }

ReportRoutes == {"get_report_data", "download_report", "download_report_pdf"}

\* DashboardFilters(...) as each route builds it: the exports take no skip and
\* fix the limit
RouteFilters(route, f) ==
    CASE route = "get_report_data" -> f
      [] route = "download_report" -> [f EXCEPT !.skip = 0, !.limit = CSV_LIMIT]
      [] route = "download_report_pdf" -> [f EXCEPT !.skip = 0, !.limit = PDF_LIMIT]

\* DATE LOGIC of get_detailed_report
ReportWindow(filters, t) ==
    IF filters.date_from # NULL /\ filters.date_to # NULL
    THEN <<filters.date_from, filters.date_to>>
    ELSE LET today == t - (t % MinutesPerDay)
             first_day_this_month == MonthStart(MonthOf(today))
             last_day_prev_month == first_day_this_month - MinutesPerDay
             first_day_prev_month == MonthStart(MonthOf(last_day_prev_month))
         IN <<first_day_prev_month, first_day_this_month>>

\* the PenaltyBase CTE of the report: the text of the dashboard's
ReportPenaltyBase(log, start_date, end_date, getdate, pick) ==
    DashboardPenaltyBase(log, start_date, end_date, getdate, pick)

\* ReportRow(**dict(r)): NVR_PRK is a required int
ReportRowAccepted(r) == r.NVR_PRK # NULL

\* the possible answers of get_detailed_report: the COUNT query and the
\* paginated query ORDER BY Camera_PRK each see their own TOP (1) picks; any
\* exception gives the empty response
DetailedReports(log, filters, t, raises) ==
    IF raises THEN {EmptyResponse}
    ELSE LET w == ReportWindow(filters, t)
         IN { LET page == Page(s, filters.skip, filters.limit)
              IN IF \A i \in 1..Len(page) : ReportRowAccepted(page[i])
                 THEN [total_rows |-> n, data |-> page]
                 ELSE EmptyResponse :
                <<n, s>> \in
                    UNION { { Cardinality({ r \in ReportPenaltyBase(log, w[1], w[2], t, pick1) :
                                              Matches(r, filters) }) }
                            \X Orderings({ r \in ReportPenaltyBase(log, w[1], w[2], t, pick2) :
                                             Matches(r, filters) }, "Camera_PRK", FALSE) :
                            <<pick1, pick2>> \in GeoPicks \X GeoPicks } }

\* convert_report_to_csv / convert_report_to_pdf
ExportBody(data) == IF data = <<>> THEN <<"No Data Found">> ELSE data

\* what a route answers from the response of the service
RouteResponse(route, response) ==
    IF route = "get_report_data"
    THEN [status_code |-> HTTP_200_OK, total_rows |-> response.total_rows, data |-> response.data]
    ELSE [status_code |-> HTTP_200_OK, body |-> ExportBody(response.data)]

\* a request to one of the report routes
StartReport(p, route, f) ==
    /\ CanStart(p)
    /\ pc' = [pc EXCEPT ![p] = "report"]
    /\ loc' = [loc EXCEPT ![p] = [Idle EXCEPT !.op = route, !.filters = RouteFilters(route, f)]]
    /\ opsLeft' = opsLeft - 1
    /\ UNCHANGED <<Building_TBL, il, now, artifact, overlap>>

\* get_detailed_report and the answer of the route
RunReport(p) ==
    /\ pc[p] = "report"
    /\ \E raises \in BOOLEAN :
          \E response \in DetailedReports(il, loc[p].filters, now, raises) :
              loc' = [loc EXCEPT ![p].failed = IF raises THEN {"report"} ELSE {},
                                 ![p].window = ReportWindow(loc[p].filters, now),
                                 ![p].at = now,
                                 ![p].result = RouteResponse(loc[p].op, response)]
    /\ pc' = [pc EXCEPT ![p] = "done"]
    /\ UNCHANGED <<Building_TBL, il, now, artifact, opsLeft, overlap>>

\* ------------------------------------------------------------------
\* The services that only read the production database
\* ------------------------------------------------------------------
Jan15_09h == 14 * MinutesPerDay + 540

\* the events stamped up to a clock reading
LogUntil(log, t) == SelectSeq(log, LAMBDA e : e.inlDateTime_DTM <= t)

\* in mid-January with the events so far and no cache yet, or at the first
\* clock reading of the rebuilds with the caches of January and February as a
\* rebuild left them; event 1 is waived or not
InitDashboard ==
    /\ Building_TBL = BuildingContracts
    /\ \E d \in Deltas :
          \/ /\ now = Jan15_09h
             /\ il \in { LogUntil(InitialLog(d), now), SetCategory(LogUntil(InitialLog(d), now), 1, 7) }
             /\ artifact = NoArtifacts
          \/ /\ now = NowPoints[1]
             /\ il \in { InitialLog(d), SetCategory(InitialLog(d), 1, 7) }
             /\ \E pick \in GeoPicks :
                   artifact = [NoArtifacts EXCEPT
                                 ![202401] = BuiltArtifact(il, <<MonthStart(1), MonthStart(2)>>, NowPoints[1], pick),
                                 ![202402] = BuiltArtifact(il, <<MonthStart(2), MonthStart(3)>>, NowPoints[1], pick)]
    /\ pc = [p \in Procs |-> "idle"]
    /\ loc = [p \in Procs |-> Idle]
    /\ opsLeft = MaxOps
    /\ overlap = FALSE

NextDashboard ==
    \/ \E p \in Procs, f \in DashboardFilterInputs : StartDashboard(p, f)
    \/ \E p \in Procs : GatherKPIs(p)
    \/ \E p \in Procs, route \in ReportRoutes, f \in ReportFilterInputs : StartReport(p, route, f)
    \/ \E p \in Procs : RunReport(p)
    \/ Tick

\* dashboard and report requests, served one at a time
SpecDashboard == InitDashboard /\ [][NextDashboard]_vars

\* ------------------------------------------------------------------
\* Properties
\* ------------------------------------------------------------------
RebuildErrors == {"source_error", "connect_error", "create_error"}

\* the answers of the query over a table when nothing fails: the matching rows
\* in sort order, cut to the page, and their count
ExactAnswers(rows, f) ==
    LET M == {r \in rows : Matches(r, f)}
    IN { [total_rows |-> Cardinality(M), data |-> Page(s, f.skip, f.limit)] :
           s \in Orderings(M, sort_column(f), f.sort_dir = "desc") }

\* C1: a query of a month whose artifact holds a table when the query returns
\* (it existed before the rebuild and is either the old or the new one) returns
\* exactly the filtered page of that table, never a substituted empty result.
\* Stated for requests whose filter object carries the sort attributes.
C1_QueryReturnsOldOrNew ==
    [][\A p \in Procs :
          (/\ loc[p].op = "query"
           /\ Busy(p)
           /\ pc'[p] = "done"
           /\ loc[p].filters.has_sort
           /\ artifact[KeyOf(p)].hasTable
           /\ \A r \in artifact[KeyOf(p)].rows : ReportRowValid(r))
          => loc'[p].result \in ExactAnswers(artifact[KeyOf(p)].rows, loc[p].filters)]_vars

\* C2: when the read of the source fails, the request ends with an error and the
\* cache directory is exactly what it was when the request was issued.
C2_ReadFailureKeepsArtifact ==
    \A p \in Procs :
        loc[p].raised = "source_error"
        => /\ pc[p] \in {"respond", "done"}
           /\ artifact = loc[p].pre

C2_Witness ==
    \E p \in Procs :
        /\ loc[p].op = "regen"
        /\ pc[p] = "done"
        /\ loc[p].raised = "source_error"
        /\ loc[p].pre[KeyOf(p)].hasTable

\* C3: two rebuilds of the same month are never both between their read of the
\* source and their write of the artifact.
C3_AtMostOneRebuildInFlight ==
    \A p, q \in Procs :
        (p # q /\ pc[p] \in {"connect", "create"} /\ pc[q] \in {"connect", "create"})
        => KeyOf(p) # KeyOf(q)

AllRows == UNION { artifact[k].rows : k \in MonthKeys }

\* C4: a cached row with offline minutes m and no waiver carries 0 below 1440
\* minutes and ceil(m / 1440) * 500 from 1440 on (1439 -> 0, 1440 -> 500,
\* 1441 -> 1000, 2880 -> 1000); the outage from 2024-01-05T10:00 to
\* 2024-01-08T10:00 is 4320 minutes and 1500.
C4_PenaltyFormula ==
    \A r \in AllRows :
        /\ (r.OfflineMinutes # NULL /\ r.WaiverCategory = NULL)
           => /\ r.OfflineMinutes < 1440 => r.PenaltyAmount = 0
              /\ r.OfflineMinutes >= 1440
                 => \E n \in 1..31 : /\ (n - 1) * 1440 < r.OfflineMinutes
                                     /\ r.OfflineMinutes <= n * 1440
                                     /\ r.PenaltyAmount = n * 500
              /\ r.OfflineMinutes = 1439 => r.PenaltyAmount = 0
              /\ r.OfflineMinutes = 1440 => r.PenaltyAmount = 500
              /\ r.OfflineMinutes = 1441 => r.PenaltyAmount = 1000
              /\ r.OfflineMinutes = 2880 => r.PenaltyAmount = 1000
        /\ (r.OfflineTime = 4 * 1440 + 600 /\ r.OnlineTime = 7 * 1440 + 600)
           => /\ r.OfflineMinutes = 4320
              /\ r.WaiverCategory = NULL => r.PenaltyAmount = 1500

\* a rebuild has written the row of the partial second day
C4_Witness ==
    /\ pc[1] = "done" /\ loc[1].op = "regen" /\ loc[1].raised = "none"
    /\ \E r \in artifact[KeyOf(1)].rows :
          r.OfflineMinutes = 1441 /\ r.WaiverCategory = NULL /\ r.PenaltyAmount = 1000

\* C5: every cached row that carries a waiver category has penalty 0.
C5_WaiverSuppressesPenalty ==
    \A r \in AllRows : r.WaiverCategory # NULL => r.PenaltyAmount = 0

C5_Witness ==
    \E r \in AllRows : r.WaiverCategory # NULL /\ r.OfflineMinutes >= 1440 /\ r.PenaltyAmount = 0

FullMonth(start_date, end_date) ==
    \E i \in 1..3 : start_date = MonthStart(i) /\ end_date = MonthStart(i + 1)

\* C6: once a waiver of the disconnect event that defines a device's offline
\* interval in the month has returned successfully, no row of the device in
\* the month's artifact carries a penalty.
C6_WaivedDeviceChargedNothing ==
    \A p \in Procs :
        (/\ loc[p].op = "waive" /\ pc[p] = "done" /\ loc[p].raised = "none"
         /\ FullMonth(loc[p].start, loc[p].end)
         /\ il[loc[p].prk].inlAlarmMessage_TXT = "Channel disconnect"
         /\ il[loc[p].prk].inlDateTime_DTM =
               OfflineTime(il, il[loc[p].prk].inlSourceDevice_FRK, loc[p].start, loc[p].end))
        => \A r \in artifact[KeyOf(p)].rows :
              r.Camera_PRK = il[loc[p].prk].inlSourceDevice_FRK => r.PenaltyAmount = 0

\* C7: a waiver of an event changes no artifact other than the one of the
\* calendar month of the event's timestamp, and rebuilds that one.
C7_WaiverRebuildsEventMonthOnly ==
    \A p \in Procs :
        (loc[p].op = "waive" /\ pc[p] = "done" /\ loc[p].raised = "none")
        => /\ \A k \in MonthKeys :
                 k # YearMonth(il[loc[p].prk].inlDateTime_DTM) => artifact[k] = loc[p].pre[k]
           /\ KeyOf(p) = YearMonth(il[loc[p].prk].inlDateTime_DTM)

\* C8: in the waiver workflow the rebuild runs only on a log that carries the
\* new category, and a failed category update starts no rebuild and leaves the
\* event log and every artifact as they were.
C8_UpdatePrecedesRebuild ==
    \A p \in Procs :
        loc[p].op = "waive"
        => /\ pc[p] \in {"read", "connect", "create"}
              => il[loc[p].prk].inlSubSubCategory_FRK = loc[p].sub
           /\ loc[p].raised = "update_error"
              => /\ pc[p] \in {"respond", "done"}
                 /\ il = loc[p].preLog
                 /\ artifact = loc[p].pre

C8_Witness ==
    \E p \in Procs :
        /\ loc[p].op = "waive" /\ pc[p] = "done" /\ loc[p].raised = "update_error"
        /\ loc[p].pre[KeyOf(p)].hasTable

\* C9: when the category update is committed and the rebuild fails, the event
\* keeps the new category, the month's cached table is the prior one, and the
\* endpoint answers with a failure.
C9_RebuildFailureSurfaced ==
    \A p \in Procs :
        (loc[p].op = "waive" /\ pc[p] = "done" /\ loc[p].raised \in RebuildErrors)
        => /\ il[loc[p].prk].inlSubSubCategory_FRK = loc[p].sub
           /\ artifact[KeyOf(p)].hasTable = loc[p].pre[KeyOf(p)].hasTable
           /\ artifact[KeyOf(p)].rows = loc[p].pre[KeyOf(p)].rows
           /\ loc[p].result.status_code # HTTP_200_OK

C9_Witness ==
    \E p \in Procs :
        /\ loc[p].op = "waive" /\ pc[p] = "done" /\ loc[p].raised \in RebuildErrors
        /\ loc[p].pre[KeyOf(p)].hasTable
        /\ loc[p].preLog[loc[p].prk].inlSubSubCategory_FRK = NULL

\* what the caller can tell apart without parsing the exception text
ResultKind(r) == <<r.status_code, r.message>>

\* C10: a waiver whose update failed and a waiver whose update was committed
\* but whose rebuild failed never give the caller the same kind of result.
C10_FailuresDistinguishable ==
    \A p, q \in Procs :
        (/\ loc[p].op = "waive" /\ pc[p] = "done" /\ loc[p].raised = "update_error"
         /\ loc[q].op = "waive" /\ pc[q] = "done" /\ loc[q].raised \in RebuildErrors)
        => ResultKind(loc[p].result) # ResultKind(loc[q].result)

\* the step in which request p reads the source database into its frame
ReadsSource(p) == pc[p] = "read" /\ pc'[p] = "connect"

\* request p holds the frame it has read and not yet written
HoldsFrame(p) == pc[p] \in {"connect", "create"}

\* timestamps of the events of a kind that the log holds for a camera
EventTimes(cam, msg) ==
    { il[e].inlDateTime_DTM :
        e \in { x \in DOMAIN il : il[x].inlSourceDevice_FRK = cam /\ il[x].inlAlarmMessage_TXT = msg } }

\* C11: every row a rebuild has read for the window [start, end) has as
\* offline_time the latest disconnect timestamp t of its device with
\* start <= t < end, and null exactly when the device has no such event; a row
\* with a null offline_time has null online_time, effective_end and
\* offline_minutes and penalty 0.
C11_OfflineTimeIsLatestDisconnect ==
    \A p \in Procs : HoldsFrame(p) =>
        \A r \in loc[p].df :
            LET D == { t \in EventTimes(r.Camera_PRK, "Channel disconnect") :
                         loc[p].start <= t /\ t < loc[p].end }
            IN /\ (r.OfflineTime = NULL) <=> (D = {})
               /\ r.OfflineTime # NULL =>
                     (r.OfflineTime \in D /\ \A t \in D : t <= r.OfflineTime)
               /\ r.OfflineTime = NULL =>
                     /\ r.OnlineTime = NULL
                     /\ r.EffectiveEndForMonth = NULL
                     /\ r.OfflineMinutes = NULL
                     /\ r.PenaltyAmount = 0

\* a frame holding a device with two disconnects in the window and a device
\* with none
C11_Witness ==
    \E p \in Procs :
        /\ pc[p] = "connect"
        /\ loc[p].start = MonthStart(1)
        /\ \E r \in loc[p].df : r.Camera_PRK = 1 /\ r.OfflineTime = Jan5_10h
        /\ \E r \in loc[p].df : r.Camera_PRK = 2 /\ r.OfflineTime = NULL /\ r.PenaltyAmount = 0

\* C12: every row a rebuild has read with a non-null offline_time has as
\* online_time the earliest connect timestamp t of its device with
\* offline_time < t < end, and null when there is none; a connect at or before
\* offline_time, before start, or at or after end is never the online_time.
C12_OnlineTimeIsNextConnect ==
    \A p \in Procs : HoldsFrame(p) =>
        \A r \in loc[p].df :
            r.OfflineTime # NULL =>
                LET K == { t \in EventTimes(r.Camera_PRK, "Channel connected") :
                             r.OfflineTime < t /\ t < loc[p].end }
                IN /\ (r.OnlineTime = NULL) <=> (K = {})
                   /\ r.OnlineTime # NULL =>
                         /\ r.OnlineTime \in K
                         /\ \A t \in K : r.OnlineTime <= t
                         /\ r.OnlineTime > r.OfflineTime
                         /\ r.OnlineTime >= loc[p].start
                         /\ r.OnlineTime < loc[p].end

\* camera 1 in January: a connect before the disconnect and two after it, the
\* earlier of the two is taken
C12_Witness ==
    \E p \in Procs :
        /\ pc[p] = "connect"
        /\ \E r \in loc[p].df :
              /\ r.Camera_PRK = 1 /\ r.OfflineTime = Jan5_10h
              /\ r.OnlineTime > Jan5_10h /\ r.OnlineTime < 19 * MinutesPerDay
              /\ 2 * MinutesPerDay \in EventTimes(1, "Channel connected")

\* camera 1 in February: its only later connect lies after the window
C12_WitnessOutside ==
    \E p \in Procs :
        /\ pc[p] = "connect" /\ loc[p].end = MonthStart(3)
        /\ \E r \in loc[p].df :
              /\ r.Camera_PRK = 1 /\ r.OfflineTime = Feb20_00h /\ r.OnlineTime = NULL
              /\ \E t \in EventTimes(1, "Channel connected") : t >= MonthStart(3)

\* C13: effective_end of a row with an interval is online_time when there is
\* one (it never lies after the window end), and otherwise the clock reading of
\* the rebuild when that is at or before the window end and the window end
\* when it is later; effective_end never exceeds the window end.
C13_EffectiveEndClipped ==
    [][\A p \in Procs : ReadsSource(p) =>
          \A r \in loc'[p].df :
              r.OfflineTime # NULL =>
                  /\ (r.OnlineTime # NULL /\ r.OnlineTime <= loc[p].end)
                        => r.EffectiveEndForMonth = r.OnlineTime
                  /\ (r.OnlineTime # NULL /\ r.OnlineTime > loc[p].end)
                        => r.EffectiveEndForMonth = loc[p].end
                  /\ (r.OnlineTime = NULL /\ now <= loc[p].end)
                        => r.EffectiveEndForMonth = now
                  /\ (r.OnlineTime = NULL /\ now > loc[p].end)
                        => r.EffectiveEndForMonth = loc[p].end
                  /\ r.EffectiveEndForMonth <= loc[p].end]_vars

\* an ongoing outage of camera 2 in February, read after the month has ended:
\* the window end is stored
C13_Witness ==
    \E p \in Procs :
        /\ pc[p] = "connect" /\ loc[p].end = MonthStart(3)
        /\ \E r \in loc[p].df :
              /\ r.Camera_PRK = 2 /\ r.OfflineTime = Feb3_00h /\ r.OnlineTime = NULL
              /\ r.EffectiveEndForMonth = MonthStart(3)

\* the same outage read during the month: the clock reading is stored
C13_WitnessOngoing ==
    \E p \in Procs :
        /\ pc[p] = "connect" /\ loc[p].end = MonthStart(3) /\ now = Feb10_00h
        /\ \E r \in loc[p].df :
              /\ r.Camera_PRK = 2 /\ r.OfflineTime = Feb3_00h /\ r.OnlineTime = NULL
              /\ r.EffectiveEndForMonth = Feb10_00h

\* C14: every cached row with an interval has offline_minutes >= 0 and a
\* stored effective_end at or after offline_time, offline_minutes being the
\* minutes between the two.
C14_StoredIntervalNotNegative ==
    \A r \in AllRows :
        r.OfflineTime # NULL =>
            /\ r.OfflineMinutes >= 0
            /\ r.EffectiveEndForMonth >= r.OfflineTime
            /\ r.OfflineMinutes = r.EffectiveEndForMonth - r.OfflineTime

\* C15: the artifact a rebuild has written holds no two rows with the same
\* camera id.
C15_OneRowPerDevice ==
    \A p \in Procs :
        (loc[p].op = "regen" /\ pc[p] = "done" /\ loc[p].raised = "none")
        => \A r1, r2 \in artifact[KeyOf(p)].rows :
               r1.Camera_PRK = r2.Camera_PRK => r1 = r2

\* C16: the artifact a rebuild has written holds rows of exactly the devices
\* that have a geography link to a building under the contract 'PWD': no
\* device without such a link has a row, every device with one has a row.
C16_InScopeIffLinkedToContract ==
    \A p \in Procs :
        (loc[p].op = "regen" /\ pc[p] = "done" /\ loc[p].raised = "none")
        => { r.Camera_PRK : r \in artifact[KeyOf(p)].rows }
              = { cam \in Camera_TBL :
                    \E g \in LinksOf(cam) : Building_TBL[g.gclBuilding_FRK] = "PWD" }

\* C17: a dashboard answer for a window that is exactly one month, computed
\* while the month's cache is as old as the clock reading, reports as
\* total_penalty the sum of penalty_amount over the cached rows of the month
\* that match its geography filters.
C17_DashboardPenaltyEqualsCacheSum ==
    \A p \in Procs, i \in 1..2 :
        (/\ loc[p].op = "dashboard" /\ pc[p] = "done"
         /\ "total_penalty" \notin loc[p].failed
         /\ loc[p].filters.date_from = MonthStart(i)
         /\ loc[p].filters.date_to = MonthStart(i + 1)
         /\ artifact[202400 + i].hasTable
         /\ artifact[202400 + i].mtime = now)
        => loc[p].result.total_penalty =
              SumPenaltyAmount({ r \in artifact[202400 + i].rows : Matches(r, loc[p].filters) })

\* C18: when the penalty statement raises, the dashboard still answers:
\* total_open_incidents and total_closed_incidents are what their own count
\* queries returned, total_penalty is 0 and error_details has the key
\* "total_penalty".
C18_PenaltyFailureIsolated ==
    \A p \in Procs :
        (loc[p].op = "dashboard" /\ pc[p] = "done" /\ "total_penalty" \in loc[p].failed)
        => /\ loc[p].result.total_open_incidents =
                 calculate_open_incidents(il, loc[p].filters, "total_open_incidents" \in loc[p].failed)
           /\ loc[p].result.total_closed_incidents =
                 calculate_closed_incidents(il, loc[p].filters, "total_closed_incidents" \in loc[p].failed)
           /\ loc[p].result.total_penalty = 0
           /\ "total_penalty" \in DOMAIN loc[p].result.error_details

\* the penalty statement raised while both counts succeeded and are not zero
C18_Witness ==
    \E p \in Procs :
        /\ loc[p].op = "dashboard" /\ pc[p] = "done"
        /\ loc[p].failed = {"total_penalty"}
        /\ loc[p].result.total_open_incidents > 0
        /\ loc[p].result.total_closed_incidents > 0
        /\ loc[p].result.total_penalty = 0
        /\ DOMAIN loc[p].result.error_details = {"total_penalty"}

\* C19: in every dashboard answer, for each of the three KPI tasks: when its
\* database statement raised, its value is 0 and its key is in error_details;
\* when it did not, its key is absent from error_details.
C19_ErrorDetailsIffFailed ==
    \A p \in Procs :
        (loc[p].op = "dashboard" /\ pc[p] = "done")
        => \A key \in tasks :
              /\ key \in loc[p].failed
                    => (loc[p].result[key] = 0 /\ key \in DOMAIN loc[p].result.error_details)
              /\ key \notin loc[p].failed
                    => key \notin DOMAIN loc[p].result.error_details

\* C20: a query of a month whose artifact holds a table answers with
\* total_rows = the number of cached rows that match the zone / street / unit
\* filters (an absent or empty list does not restrict) and data = at most limit
\* of those rows from offset skip in the sort order.
C20_QueryCountsAndPages ==
    \A p \in Procs :
        (loc[p].op = "query" /\ pc[p] = "done" /\ artifact[KeyOf(p)].hasTable)
        => loc[p].result \in ExactAnswers(artifact[KeyOf(p)].rows, loc[p].filters)

\* C21: no step of a cached query changes the cache directory, a query always
\* ends with a response and never with an exception, and the response is the
\* empty page with total_rows = 0 when the month's file is missing, has no
\* cached table, or cannot be opened because a writer holds it.
C21_QueryNeverRaisesNorWrites ==
    [][\A p \in Procs :
          (loc[p].op = "query" /\ Busy(p) /\ pc'[p] # pc[p])
          => /\ artifact' = artifact
             /\ pc'[p] = "done" =>
                   (loc'[p].raised = "none" /\ "total_rows" \in DOMAIN loc'[p].result)
             /\ (\/ ~artifact[KeyOf(p)].exists
                 \/ ~artifact[KeyOf(p)].hasTable
                 \/ WriterOpen(KeyOf(p)))
                => (pc'[p] = "done" /\ loc'[p].result = EmptyResponse)]_vars

\* a query answered with the empty page while a rebuild holds the file of a
\* month that has a cached table with rows
C21_Witness ==
    \E p, q \in Procs :
        /\ loc[p].op = "query" /\ pc[p] = "done" /\ loc[p].result = EmptyResponse
        /\ pc[q] = "create" /\ KeyOf(q) = KeyOf(p)
        /\ artifact[KeyOf(p)].hasTable /\ artifact[KeyOf(p)].rows # {}

\* the rows of a sequence
Range(s) == { s[i] : i \in DOMAIN s }

C23_RebuildIdempotent ==
    \A p \in Procs :
        (/\ loc[p].op = "regen" /\ pc[p] = "done" /\ loc[p].raised = "none"
         /\ loc[p].preLog = il
         /\ loc[p].pre[KeyOf(p)].hasTable
         /\ \E i \in 1..Len(NowPoints), pick \in GeoPicks :
               loc[p].pre[KeyOf(p)].rows
                   = PenaltyBase(il, loc[p].start, loc[p].end, NowPoints[i], pick))
        => artifact[KeyOf(p)].rows = loc[p].pre[KeyOf(p)].rows

\* C24: the staleness check of a month answers true exactly when the month has
\* no usable artifact (no file, or a file without the cached table) or its
\* table was last rebuilt more than 24 hours ago.
C24_StaleIffMissingOrOld ==
    \A k \in MonthKeys :
        is_duckdb_file_stale(k)
            <=> \/ ~artifact[k].exists
                \/ ~artifact[k].hasTable
                \/ now - artifact[k].mtime > 1440

\* C25: a dashboard or report request without date_from and date_to computes
\* its penalty rows over the window from the first minute of the calendar
\* month before the month of the clock reading to the first minute of the
\* month of the clock reading, in January (December of the year before) as in
\* months that follow a month of 31 or of 29 days.
C25_DefaultWindowIsPreviousMonth ==
    \A p \in Procs :
        (/\ pc[p] = "done"
         /\ loc[p].op \in {"dashboard"} \cup ReportRoutes
         /\ loc[p].filters.date_from = NULL /\ loc[p].filters.date_to = NULL)
        => \E m \in 1..3 :
              /\ MonthStart(m) <= loc[p].at /\ loc[p].at < MonthStart(m + 1)
              /\ loc[p].window = <<MonthStart(m) - MonthDays[m - 1] * MinutesPerDay, MonthStart(m)>>

C25_Witness ==
    \E p \in Procs :
        /\ pc[p] = "done" /\ loc[p].op = "dashboard"
        /\ loc[p].filters.date_from = NULL /\ loc[p].filters.date_to = NULL
        /\ loc[p].at = Jan15_09h
        /\ loc[p].window = <<0 - 31 * MinutesPerDay, 0>>

\* C26: a request to the report page, the CSV export or the PDF export whose
\* report query raised is answered with an error status, never with a
\* successful response.
C26_ReportFailureIsAnError ==
    \A p \in Procs :
        (pc[p] = "done" /\ loc[p].op \in ReportRoutes /\ loc[p].failed # {})
        => loc[p].result.status_code # HTTP_200_OK

\* two instants of the same calendar month of the same year
SameMonth(t1, t2) ==
    \E m \in 1..3 :
        /\ MonthStart(m) <= t1 /\ t1 < MonthStart(m + 1)
        /\ MonthStart(m) <= t2 /\ t2 < MonthStart(m + 1)

\* C27: two window starts are given the same artifact path exactly when they
\* lie in the same calendar month of the same year, and a rebuild or waiver
\* creates, replaces or modifies no artifact other than the one of the month
\* of its window start.
C27_ArtifactNamedByMonth ==
    /\ \A w1, w2 \in CallerWindows :
          get_duckdb_file_path(w1[1]) = get_duckdb_file_path(w2[1]) <=> SameMonth(w1[1], w2[1])
    /\ \A p \in Procs :
          loc[p].op \in {"regen", "waive"}
          => \A m \in 1..3 :
                ~SameMonth(MonthStart(m), loc[p].start) => artifact[202400 + m] = loc[p].pre[202400 + m]

C27_Witness ==
    \E p \in Procs :
        /\ loc[p].op = "regen" /\ pc[p] = "done" /\ loc[p].raised = "none"
        /\ loc[p].start = Feb10_00h
        /\ artifact[202402] # loc[p].pre[202402]
        /\ artifact[202401].hasTable

\* C28: the table a successful rebuild or waiver stores under a month key
\* holds the rows computed over that whole calendar month (at some clock
\* reading, for some choice of geography links), also when the window sent
\* covers part of the month or several months.
C28_ArtifactCoversWholeMonth ==
    \A p \in Procs :
        (/\ loc[p].op \in {"regen", "waive"} /\ pc[p] = "done" /\ loc[p].raised = "none"
         /\ Building_TBL = BuildingContracts)
        => \E m \in 1..3, i \in 1..Len(NowPoints), pick \in GeoPicks :
              /\ KeyOf(p) = 202400 + m
              /\ artifact[KeyOf(p)].rows
                    = PenaltyBase(il, MonthStart(m), MonthStart(m + 1), NowPoints[i], pick)

\* C29: when the source read of a rebuild returned no row, the write step
\* completes without error and leaves the month's artifact holding the cached
\* table with no rows.
C29_EmptyReadStoresEmptyTable ==
    [][\A p \in Procs :
          (pc[p] = "create" /\ pc'[p] # "create" /\ loc[p].df = {})
          => /\ loc'[p].raised = "none"
             /\ artifact'[KeyOf(p)].hasTable
             /\ artifact'[KeyOf(p)].rows = {}]_vars

\* events with a status, inside a window, that pass the geography filters
EventsInWindow(log, filters, w, status) ==
    { e \in DOMAIN log :
        /\ InFilter(filters.zone_id, log[e].inlZone_FRK)
        /\ InFilter(filters.street_id, log[e].inlStreet_FRK)
        /\ InFilter(filters.unit_id, log[e].inlUnit_FRK)
        /\ log[e].inlStatus_FRK = status
        /\ w[1] <= log[e].inlDateTime_DTM /\ log[e].inlDateTime_DTM < w[2] }

\* C30: in a dashboard answer whose count statements did not raise, the open
\* and the closed count are the numbers of matching events inside the window
\* over which the penalty of the same request was computed, whichever of
\* date_from and date_to were supplied.
C30_CountsAndPenaltyShareWindow ==
    \A p \in Procs :
        (/\ loc[p].op = "dashboard" /\ pc[p] = "done"
         /\ loc[p].failed \cap {"total_open_incidents", "total_closed_incidents"} = {})
        => /\ loc[p].result.total_open_incidents
                 = Cardinality(EventsInWindow(il, loc[p].filters, loc[p].window, STATUS_OPEN_FK))
           /\ loc[p].result.total_closed_incidents
                 = Cardinality(EventsInWindow(il, loc[p].filters, loc[p].window, STATUS_CLOSED_FK))

====
